---- MODULE Spec2Model ----
(***************************************************************************)
(* The PDF rendering pipeline of backend/emprinten/renderer.py:            *)
(* render_pdf, its helpers, _TemplateCompiler and _HtmlCompiler.           *)
(* Strings whose characters matter (file names, URLs, sequence numbers)    *)
(* are tuples of one-character strings; template sources, rows and         *)
(* patterns are opaque tokens.  Rendered output of the external template   *)
(* engine and of the HTML-to-PDF engine is a record of what went into it.  *)
(***************************************************************************)
EXTENDS Integers, Sequences, FiniteSets, TLC

VARIABLES pc, files, filename_pattern, title_pattern, data, return_archive,
          main, vfs, tmpdir, sources, results, name_tpl, response, stages,
          fs, probe

\* State of the other components: the request and session the middlewares
\* of backend/core/middleware.py see, the Event and Organization tables, the
\* Program and ScheduleItem tables of backend/program_v2/models/program.py
\* and the EventAdmin call of core/admin.py.
VARIABLES request, session, events, organizations,
          programs, schedule_items, last_op,
          admin_obj, admin_readonly

\* State around programme/views/programme_accept_invitation_view.py: the
\* Invitation row the code names, its Programme row, the ProgrammeRole rows
\* and the invitations sired by accepted ones, and each request's progress
\* through the view.
VARIABLES invitation, programme, programme_roles, sired_invitations, view

inputs == <<files, filename_pattern, title_pattern, data, return_archive>>
locals == <<main, vfs, tmpdir, sources, results, name_tpl>>
renderer == <<pc, files, filename_pattern, title_pattern, data, return_archive,
              main, vfs, tmpdir, sources, results, name_tpl, response, stages,
              fs, probe>>
web == <<request, session, events, organizations>>
schedule == <<programs, schedule_items, last_op>>
admin == <<admin_obj, admin_readonly>>
database == <<invitation, programme, programme_roles, sired_invitations>>
invite == <<database, view>>
others == <<web, schedule, admin, invite>>
vars == <<renderer, others>>

(* ----------------------------- bounds ---------------------------------- *)

MaxFiles == 2
MaxRows == 2
MaxFailAt == 2
BigRows == 1000

Calls == {"a", "b"}
TmpNames == {"t1", "t2"}
Row1 == [id |-> "r1"]
Row2 == [id |-> "r2"]
Rows == {Row1, Row2}

\* Python's None; every optional value of the model is a record.
None == [none |-> TRUE]

\* failAt value of a step in which nothing raises.
NoFail == 0 - 1

(* ------------------------- ProjectFile / FileVersion ------------------- *)

TypeMain == "Main"
TypeHTML == "HTML"
TypeCSS == "CSS"
TypeCSV == "CSV"
Types == {TypeMain, TypeHTML, TypeCSS, TypeCSV}

NameM == <<"m">>
NameX == <<"x">>
NameAbsent == <<"y">>
Names == {NameM, NameX}

\* Payloads: "plain" is self-contained, "inc" contains {% include "x" %}.
Contents == {"plain", "inc"}

FV(name, type, payload) == [file_name |-> name, type |-> type, data |-> payload]

\* The file versions a caller may pass, a subset of
\* [file_name : Names, type : Types, data : Contents].
FileVersion ==
    {FV(NameM, TypeMain, "plain"), FV(NameM, TypeMain, "inc"),
     FV(NameM, TypeHTML, "plain"), FV(NameM, TypeCSV, "plain"),
     FV(NameX, TypeMain, "inc"), FV(NameX, TypeHTML, "plain"),
     FV(NameX, TypeCSS, "plain"), FV(NameX, TypeCSV, "plain"),
     FV(NameX, TypeCSV, "inc")}

LOCAL_FILE_URI_PREFIX == <<"f", "i", "l", "e", ":", "/", "/", "/">>

(* ------------------------------ helpers -------------------------------- *)

SeqsUpTo(S, n) == UNION {[1..k -> S] : k \in 0..n}

RECURSIVE SelectFirst(_, _)
SelectFirst(s, type) ==
    IF s = <<>> THEN None
    ELSE IF Head(s).type = type THEN Head(s)
    ELSE SelectFirst(Tail(s), type)

\* Mutation: several Main-typed files count as none.
find_main_single(fls) ==
    IF Cardinality({i \in 1..Len(fls) : fls[i].type = TypeMain}) = 1
    THEN SelectFirst(fls, TypeMain)
    ELSE None

\* Mutation: the first file is taken whatever its type.
find_main_any(fls) == IF fls = <<>> THEN None ELSE Head(fls)

find_main(fls) == SelectFirst(fls, TypeMain)

\* Python dict insertion: an existing key keeps its position and takes the
\* new value, a new key goes last.
DictPut(d, fv) ==
    IF \E i \in 1..Len(d) : d[i].file_name = fv.file_name
    THEN [i \in 1..Len(d) |-> IF d[i].file_name = fv.file_name THEN fv ELSE d[i]]
    ELSE Append(d, fv)

\* Mutation: an existing key keeps its first value.
files_to_vfs_first(fls) ==
    LET firsts == {i \in 1..Len(fls) : \A j \in 1..(i - 1) : fls[j].file_name # fls[i].file_name}
        rank(i) == Cardinality({j \in firsts : j <= i})
    IN [k \in 1..Cardinality(firsts) |-> fls[CHOOSE i \in firsts : rank(i) = k]]

RECURSIVE files_to_vfs(_)
files_to_vfs(fls) ==
    IF fls = <<>> THEN <<>>
    ELSE DictPut(files_to_vfs(SubSeq(fls, 1, Len(fls) - 1)), fls[Len(fls)])

VfsKeys(v) == {v[i].file_name : i \in 1..Len(v)}

VfsGet(v, name) ==
    IF name \in VfsKeys(v)
    THEN v[CHOOSE i \in 1..Len(v) : v[i].file_name = name]
    ELSE None

(* ---------------------- lookup tables (files.py) ----------------------- *)

IdentChars == {"m", "x", "y", "_"}

\* make_name: the normalised lookup-table name of a file name.
make_name(file_name) ==
    [i \in 1..Len(file_name) |->
        IF file_name[i] \in IdentChars THEN file_name[i] ELSE "_"]

\* make_lut: the table parsed from a CSV payload.
make_lut(payload) == [lut |-> payload]

\* Dict comprehension over vfs.values(): a later CSV entry with the same
\* normalised name replaces an earlier one.
find_lookup_tables(v) ==
    LET csv == {i \in 1..Len(v) : v[i].type = TypeCSV}
        keys == {make_name(v[i].file_name) : i \in csv}
        last(k) == CHOOSE i \in csv :
                      /\ make_name(v[i].file_name) = k
                      /\ \A j \in csv : make_name(v[j].file_name) = k => j <= i
    IN [k \in keys |-> make_lut(v[last(k)].data)]

(* -------------------------- _TemplateCompiler -------------------------- *)

TemplateTypes == {TypeMain, TypeHTML, TypeCSS}

\* Mutation: the type of the file is not looked at.
TemplateDoLookup_anytype(v, name) ==
    LET the_file == VfsGet(v, name)
    IN IF the_file = None THEN None
       ELSE [src |-> the_file.data, name |-> name]

\* _TemplateCompiler._do_lookup: None stands for "template not found".
TemplateDoLookup(v, name) ==
    LET the_file == VfsGet(v, name)
    IN IF the_file = None THEN None
       ELSE IF the_file.type \notin TemplateTypes THEN None
       ELSE [src |-> the_file.data, name |-> name]

\* Names a template source pulls in with {% include %}.
Includes(src) == IF src = "inc" THEN {NameX} ELSE {}

MaxIncludeDepth == 3

\* Rendering raises when an included name does not resolve (TemplateNotFound)
\* or the inclusion never bottoms out (RecursionError).
RECURSIVE RenderRaises(_, _, _)
RenderRaises(v, src, fuel) ==
    IF fuel = 0 THEN TRUE
    ELSE \E n \in Includes(src) :
            LET r == TemplateDoLookup(v, n)
            IN IF r = None THEN TRUE ELSE RenderRaises(v, r.src, fuel - 1)

TemplateRender(v, src, row, lookups) ==
    [tpl |-> src, row |-> row, lookups |-> lookups,
     inc |-> {TemplateDoLookup(v, n).src : n \in Includes(src)}]

\* Mutation: the title never sees a row.
TitleRender_norow(pattern, row) == [pattern |-> pattern, row |-> None]

TitleRender(pattern, row) == [pattern |-> pattern, row |-> row]

\* The title "" of a merged document without rows.
EmptyTitle == [empty |-> TRUE]

PadWidth == 3

Digit(d) == <<"0", "1", "2", "3", "4", "5", "6", "7", "8", "9">>[d + 1]

RECURSIVE Decimal(_)
Decimal(n) == IF n < 10 THEN <<Digit(n)>>
              ELSE Append(Decimal(n \div 10), Digit(n % 10))

\* Mutation: the sequence number is not padded.
Fmt03d_bare(idx) == Decimal(idx)

\* f"{idx:03d}": decimal digits, zero-filled on the left up to PadWidth.
Fmt03d(idx) ==
    LET s == Decimal(idx)
        fill == IF Len(s) >= PadWidth THEN 0 ELSE PadWidth - Len(s)
    IN [i \in 1..(Len(s) + fill) |-> IF i <= fill THEN "0" ELSE s[i - fill]]

ExtHtml == <<".", "h", "t", "m", "l">>
ExtPdf == <<".", "p", "d", "f">>
Master == <<"m", "a", "s", "t", "e", "r">>
ResultPdf == <<"r", "e", "s", "u", "l", "t", ".", "p", "d", "f">>

\* os.path.join(dir, base) kept as its components.
PathJoin(dir, base) == [dir |-> dir.dir, sub |-> dir.sub, base |-> base]

basename(path) == path.base

\* Mutation: the name is cut at its first dot.
splitext_root_first(base) ==
    LET dots == {i \in 1..Len(base) : base[i] = "."}
    IN IF dots = {} THEN base
       ELSE SubSeq(base, 1, (CHOOSE i \in dots : \A j \in dots : i <= j) - 1)

\* os.path.splitext(base)[0]: everything before the last dot, the whole
\* name when only dots come before it.
splitext_root(base) ==
    LET dots == {i \in 1..Len(base) : base[i] = "."}
        dotIndex == CHOOSE i \in dots : \A j \in dots : j <= i
    IN IF dots = {} THEN base
       ELSE IF \E k \in 1..(dotIndex - 1) : base[k] # "." THEN SubSeq(base, 1, dotIndex - 1)
       ELSE base

\* Mutation: the first row is recorded whenever there is one.
MergedRow_first(dat) == IF Len(dat) >= 1 THEN dat[1] ELSE None

\* line 204: the row recorded for the merged document.
MergedRow(dat) == IF Len(dat) = 1 THEN dat[1] ELSE None

Html(title, body, footer) == [title |-> title, body |-> body, footer |-> footer]

\* _TemplateCompiler.compile.  failAt = NoFail: nothing raises by itself;
\* failAt = 0: raising before the first row (title pattern compilation);
\* failAt = k: rendering row k raises.  The result names what was appended to
\* sources and what was written below src_dir when the call ends.
TemplateCompile(v, main_file_name, src_dir, dat, title_pat, split_output, failAt) ==
    LET lookups == find_lookup_tables(v)
        tpl == TemplateDoLookup(v, main_file_name)
        N == Len(dat)
        bad == IF tpl = None THEN FALSE ELSE RenderRaises(v, tpl.src, MaxIncludeDepth)
        eff == IF tpl = None \/ failAt = 0 THEN 0
               ELSE IF bad /\ N >= 1 THEN 1
               ELSE failAt
        done == IF eff = NoFail THEN N ELSE IF eff = 0 THEN 0 ELSE eff - 1
        body(i) == TemplateRender(v, tpl.src, dat[i], lookups)
    IN IF eff = 0
       THEN [raised |-> TRUE, sources |-> <<>>, written |-> <<>>]
       ELSE IF split_output
       THEN LET nsrc == IF eff = NoFail THEN N ELSE eff
                base == [i \in 1..nsrc |-> Fmt03d(i) \o ExtHtml]
            IN [raised |-> eff # NoFail,
                sources |-> [i \in 1..nsrc |->
                               [name |-> PathJoin(src_dir, base[i]), row |-> dat[i]]],
                written |-> [b \in {base[i] : i \in 1..nsrc} |->
                               LET i == CHOOSE j \in 1..nsrc :
                                           /\ base[j] = b
                                           /\ \A k \in (j + 1)..nsrc : base[k] # b
                               IN IF i <= done
                                  THEN Html(TitleRender(title_pat, dat[i]), <<body(i)>>, TRUE)
                                  ELSE Html(TitleRender(title_pat, dat[i]), <<>>, FALSE)]]
       ELSE LET row_copy == MergedRow(dat)
                title == IF dat # <<>> THEN TitleRender(title_pat, row_copy) ELSE EmptyTitle
                src_name == PathJoin(src_dir, Master \o ExtHtml)
            IN [raised |-> eff # NoFail,
                sources |-> <<[name |-> src_name, row |-> row_copy]>>,
                written |-> (Master \o ExtHtml) :>
                               Html(title, [i \in 1..done |-> body(i)], eff = NoFail)]

(* ----------------------------- _HtmlCompiler --------------------------- *)

RECURSIVE SelectType(_, _)
SelectType(s, type) ==
    IF s = <<>> THEN <<>>
    ELSE IF Head(s).type = type THEN <<Head(s)>> \o SelectType(Tail(s), type)
    ELSE SelectType(Tail(s), type)

find_stylesheets(v) == SelectType(v, TypeCSS)

\* Mutation: a URL without the prefix is looked up as it is.
HtmlDoLookup_anyurl(v, url) ==
    LET P == Len(LOCAL_FILE_URI_PREFIX)
        file_url == IF Len(url) >= P /\ SubSeq(url, 1, P) = LOCAL_FILE_URI_PREFIX
                    THEN SubSeq(url, P + 1, Len(url))
                    ELSE url
        the_file == VfsGet(v, file_url)
    IN IF the_file = None THEN [error |-> "KeyError"]
       ELSE [file_obj |-> the_file.data, redirected_url |-> file_url]

\* _HtmlCompiler._do_lookup, the url_fetcher handed to the PDF engine.
HtmlDoLookup(v, url) ==
    LET P == Len(LOCAL_FILE_URI_PREFIX)
        file_url == IF Len(url) >= P /\ SubSeq(url, 1, P) = LOCAL_FILE_URI_PREFIX
                    THEN SubSeq(url, P + 1, Len(url))
                    ELSE url
    IN IF file_url = url THEN [error |-> "ValueError"]
       ELSE LET the_file == VfsGet(v, file_url)
            IN IF the_file = None THEN [error |-> "KeyError"]
               ELSE [file_obj |-> the_file.data, redirected_url |-> file_url]

Exists(disk, path) ==
    /\ path.dir \in DOMAIN disk
    /\ path.base \in DOMAIN disk[path.dir][path.sub]

ReadFile(disk, path) == disk[path.dir][path.sub][path.base]

\* _HtmlCompiler.compile.  failAt as for TemplateCompile (0: parsing the
\* style sheets raises; k: converting source k raises).  A source file that
\* is not on disk makes the conversion of that source raise.
HtmlCompile(v, srcs, result_dir, disk, failAt) ==
    LET sheets == find_stylesheets(v)
        parsed_sheets == [i \in 1..Len(sheets) |-> sheets[i].data]
        missing == {i \in 1..Len(srcs) : ~Exists(disk, srcs[i].name)}
        firstMissing == IF missing = {} THEN NoFail
                        ELSE CHOOSE i \in missing : \A j \in missing : i <= j
        eff == IF failAt = NoFail THEN firstMissing
               ELSE IF firstMissing = NoFail THEN failAt
               ELSE IF failAt <= firstMissing THEN failAt ELSE firstMissing
        done == IF eff = NoFail THEN Len(srcs) ELSE IF eff = 0 THEN 0 ELSE eff - 1
        dst_base == [i \in 1..done |-> splitext_root(basename(srcs[i].name)) \o ExtPdf]
        pdf(i) == [html |-> ReadFile(disk, srcs[i].name), stylesheets |-> parsed_sheets]
    IN [raised |-> eff # NoFail,
        results |-> [i \in 1..done |->
                       [name |-> PathJoin(result_dir, dst_base[i]), row |-> srcs[i].row]],
        written |-> [b \in {dst_base[i] : i \in 1..done} |->
                       pdf(CHOOSE j \in 1..done :
                              /\ dst_base[j] = b
                              /\ \A k \in (j + 1)..done : dst_base[k] # b)]]

(* ------------------------ NameFactory (files.py) ----------------------- *)

\* str patterns are records so that they compare with None.
Str(text) == [str |-> text]

FilenamePatterns == {None, Str(""), Str("n1"), Str("n0")}
TitlePatterns == {"t1"}

\* Environment.from_string: the compiled template of a pattern.
from_string(s) == IF s = None THEN None ELSE [tpl |-> s.str]

\* Naming pattern "n0" renders to no usable name for every row.
Usable(tpl) == tpl.tpl # "n0"

\* NameFactory.make({"row": row}, fallback): the rendered name, the fallback
\* when there is no template or the rendering is unusable.
NameFactoryMake(tpl, row, fallback) ==
    IF tpl = None THEN [text |-> fallback]
    ELSE IF ~Usable(tpl) THEN [text |-> fallback]
    ELSE [pattern |-> tpl.tpl, row |-> row]

(* ------------------------------ responses ------------------------------ *)

HttpResponse(content, status) ==
    [status |-> status, content_type |-> "text/html", filename |-> None,
     body |-> content]

FileResponse(body, content_type, filename) ==
    [status |-> 200, content_type |-> content_type, filename |-> filename,
     body |-> body]

Raised(stage) == [raised |-> stage]

IsRaised(r) == "raised" \in DOMAIN r

MainNotFound == [text |-> "Main file not found"]
EmptyBody == [text |-> ""]

\* Mutation: with several results the first one is sent.
NonArchiveResponse_first(res, tpl, disk) ==
    IF res # <<>>
    THEN IF Exists(disk, res[1].name)
         THEN FileResponse(ReadFile(disk, res[1].name), "application/pdf",
                           NameFactoryMake(tpl, res[1].row, ResultPdf))
         ELSE Raised("Respond")
    ELSE HttpResponse(EmptyBody, 201)

\* Mutation: a result that carries no row counts as no result.
NonArchiveResponse_rowless(res, tpl, disk) ==
    IF Len(res) > 1 THEN HttpResponse(EmptyBody, 401)
    ELSE IF res # <<>> /\ res[1].row # None
    THEN IF Exists(disk, res[1].name)
         THEN FileResponse(ReadFile(disk, res[1].name), "application/pdf",
                           NameFactoryMake(tpl, res[1].row, ResultPdf))
         ELSE Raised("Respond")
    ELSE HttpResponse(EmptyBody, 201)

\* render_pdf, lines 141-154: the answer when no archive was asked for.
\* open(pdf_name) raises when the file is not on disk.
NonArchiveResponse(res, tpl, disk) ==
    IF Len(res) > 1 THEN HttpResponse(EmptyBody, 401)
    ELSE IF res # <<>>
    THEN LET pdf_name == res[1].name
             row == res[1].row
             file_name == NameFactoryMake(tpl, row, ResultPdf)
         IN IF Exists(disk, pdf_name)
            THEN FileResponse(ReadFile(disk, pdf_name), "application/pdf", file_name)
            ELSE Raised("Respond")
    ELSE HttpResponse(EmptyBody, 201)

\* Mutation: the single-document fallback name is used inside the archive.
ArcName_result(tpl, result) == NameFactoryMake(tpl, result.row, ResultPdf)

\* line 134: the name of a result inside the archive.
ArcName(tpl, result) == NameFactoryMake(tpl, result.row, basename(result.name))

\* render_pdf, lines 131-135: the entries written into result.zip.  The
\* entry of result k is missing from disk or failAt = k: writing it raises.
ZipEntries(res, tpl, disk, failAt) ==
    LET missing == {i \in 1..Len(res) : ~Exists(disk, res[i].name)}
        firstMissing == IF missing = {} THEN NoFail
                        ELSE CHOOSE i \in missing : \A j \in missing : i <= j
        eff == IF failAt = NoFail THEN firstMissing
               ELSE IF firstMissing = NoFail THEN failAt
               ELSE IF failAt <= firstMissing THEN failAt ELSE firstMissing
        done == IF eff = NoFail THEN Len(res) ELSE eff - 1
    IN [raised |-> eff # NoFail,
        entries |-> [i \in 1..done |->
                       [arcname |-> ArcName(tpl, res[i]),
                        content |-> ReadFile(disk, res[i].name)]]]

(* ------------------------------ temp dir ------------------------------- *)

\* Mutation: the name may be that of an existing directory.
mkdtemp_any(disk) == TmpNames

\* tempfile.mkdtemp: a directory name that does not exist yet.
mkdtemp(disk) == TmpNames \ DOMAIN disk

EmptyDir == [src |-> <<>>, result |-> <<>>, zip |-> None]
NoDir == "-"

\* shutil.rmtree(tmp_dir)
rmtree(disk, d) == [x \in DOMAIN disk \ {d} |-> disk[x]]

\* Mutation: the directory is kept whatever keep says.
ReleaseTempDir_kept(disk, d, keep) == disk

\* make_temp_dir's finally clause.
ReleaseTempDir(disk, d, keep) == IF keep THEN disk ELSE rmtree(disk, d)

WriteAll(disk, d, sub, written) ==
    [disk EXCEPT ![d][sub] = [b \in DOMAIN written \cup DOMAIN @ |->
                                IF b \in DOMAIN written THEN written[b] ELSE @[b]]]

(* ------------------------------- actions ------------------------------- *)

StageOrder == <<"Validate", "BuildVFS", "CompileTemplates", "CompilePdfs",
                "Package", "Respond">>

\* Mutation: an exception is swallowed and the next stage runs.
After_swallow(stage, raised) ==
    CASE stage = "CompileTemplates" -> "pdfs"
      [] stage = "CompilePdfs" -> "package"
      [] stage = "Package" -> "respond"
      [] stage = "Respond" -> "cleanup"

\* Control after a stage: an exception leaves the with block (to its finally
\* clause), otherwise the next statement runs.
After(stage, raised) ==
    IF raised THEN "cleanup"
    ELSE CASE stage = "CompileTemplates" -> "pdfs"
           [] stage = "CompilePdfs" -> "package"
           [] stage = "Package" -> "respond"
           [] stage = "Respond" -> "cleanup"

Outcome(c, stage, raised) ==
    /\ pc' = [pc EXCEPT ![c] = After(stage, raised)]
    /\ response' = IF raised THEN [response EXCEPT ![c] = Raised(stage)] ELSE response

Log(c, stage) == stages' = [stages EXCEPT ![c] = Append(@, stage)]

\* render_pdf lines 87-89
Validate(c) ==
    /\ pc[c] = "start"
    /\ main' = [main EXCEPT ![c] = find_main(files[c])]
    /\ IF main'[c] = None
       THEN /\ response' = [response EXCEPT ![c] = HttpResponse(MainNotFound, 404)]
            /\ pc' = [pc EXCEPT ![c] = "done"]
       ELSE /\ pc' = [pc EXCEPT ![c] = "vfs"]
            /\ UNCHANGED response
    /\ Log(c, "Validate")
    /\ UNCHANGED <<others, inputs, vfs, tmpdir, sources, results, name_tpl, fs, probe>>

\* render_pdf lines 91-92
BuildVFS(c) ==
    /\ pc[c] = "vfs"
    /\ vfs' = [vfs EXCEPT ![c] = files_to_vfs(files[c])]
    /\ pc' = [pc EXCEPT ![c] = "mktemp"]
    /\ Log(c, "BuildVFS")
    /\ UNCHANGED <<others, inputs, main, tmpdir, sources, results, name_tpl, response, fs, probe>>

\* render_pdf lines 99-118: entering make_temp_dir, then the two mkdir calls
\* (which raise when the directory is already populated).
MakeTempDir(c) ==
    /\ pc[c] = "mktemp"
    /\ \E d \in mkdtemp(fs) :
        /\ tmpdir' = [tmpdir EXCEPT ![c] = d]
        /\ IF d \in DOMAIN fs
           THEN /\ pc' = [pc EXCEPT ![c] = "cleanup"]
                /\ response' = [response EXCEPT ![c] = Raised("MakeTempDir")]
                /\ UNCHANGED fs
           ELSE /\ pc' = [pc EXCEPT ![c] = "templates"]
                /\ fs' = [x \in DOMAIN fs \cup {d} |-> IF x = d THEN EmptyDir ELSE fs[x]]
                /\ UNCHANGED response
    /\ UNCHANGED <<others, inputs, main, vfs, sources, results, name_tpl, stages, probe>>

\* Where a step may raise: nowhere, before its loop (0), or at one of the
\* first MaxFailAt items.
FailChoices(n) == {NoFail} \cup 0..(IF n < MaxFailAt THEN n ELSE MaxFailAt)

\* render_pdf lines 121-123
CompileTemplates(c) ==
    /\ pc[c] = "templates"
    /\ \E failAt \in FailChoices(Len(data[c])) :
        LET d == tmpdir[c]
            r == TemplateCompile(vfs[c], main[c].file_name, [dir |-> d, sub |-> "src"],
                                 data[c], title_pattern[c], return_archive[c], failAt)
            gone == d \notin DOMAIN fs /\ DOMAIN r.written # {}
        IN /\ sources' = [sources EXCEPT ![c] = r.sources]
           /\ fs' = IF d \in DOMAIN fs THEN WriteAll(fs, d, "src", r.written) ELSE fs
           /\ Outcome(c, "CompileTemplates", r.raised \/ gone)
    /\ Log(c, "CompileTemplates")
    /\ probe' = None
    /\ UNCHANGED <<others, inputs, main, vfs, tmpdir, results, name_tpl>>

\* render_pdf lines 125-126
CompilePdfs(c) ==
    /\ pc[c] = "pdfs"
    /\ \E failAt \in FailChoices(Len(sources[c])) :
        LET d == tmpdir[c]
            r == HtmlCompile(vfs[c], sources[c], [dir |-> d, sub |-> "result"], fs, failAt)
            gone == d \notin DOMAIN fs /\ DOMAIN r.written # {}
        IN /\ results' = [results EXCEPT ![c] = r.results]
           /\ fs' = IF d \in DOMAIN fs THEN WriteAll(fs, d, "result", r.written) ELSE fs
           /\ Outcome(c, "CompilePdfs", r.raised \/ gone)
    /\ Log(c, "CompilePdfs")
    /\ probe' = None
    /\ UNCHANGED <<others, inputs, main, vfs, tmpdir, sources, name_tpl>>

Truthy(s) == s # None /\ s.str # ""

\* render_pdf lines 127-135: the naming template and, for an archive, the zip.
\* failAt = 0: from_string (or creating the zip file) raises.
Package(c) ==
    /\ pc[c] = "package"
    /\ \E failAt \in FailChoices(IF return_archive[c] THEN Len(results[c]) ELSE 0) :
        LET d == tmpdir[c]
            tpl == IF Truthy(filename_pattern[c]) THEN from_string(filename_pattern[c]) ELSE None
            z == ZipEntries(results[c], tpl, fs, failAt)
        IN /\ failAt = 0 => Truthy(filename_pattern[c]) \/ return_archive[c]
           /\ IF failAt = 0 \/ (return_archive[c] /\ d \notin DOMAIN fs)
              THEN /\ Outcome(c, "Package", TRUE)
                   /\ UNCHANGED <<fs, name_tpl>>
              ELSE /\ name_tpl' = [name_tpl EXCEPT ![c] = tpl]
                   /\ IF return_archive[c]
                      THEN /\ fs' = [fs EXCEPT ![d].zip = [entries |-> z.entries]]
                           /\ Outcome(c, "Package", z.raised)
                      ELSE /\ Outcome(c, "Package", FALSE)
                           /\ UNCHANGED fs
    /\ Log(c, "Package")
    /\ UNCHANGED <<others, inputs, main, vfs, tmpdir, sources, results, probe>>

\* render_pdf lines 139-154: the return statements inside the with block.
Respond(c) ==
    /\ pc[c] = "respond"
    /\ LET d == tmpdir[c]
           r == IF return_archive[c]
                THEN IF d \in DOMAIN fs /\ fs[d].zip # None
                     THEN FileResponse(fs[d].zip, "application/zip", None)
                     ELSE Raised("Respond")
                ELSE NonArchiveResponse(results[c], name_tpl[c], fs)
       IN response' = [response EXCEPT ![c] = r]
    /\ pc' = [pc EXCEPT ![c] = After("Respond", IsRaised(response'[c]))]
    /\ Log(c, "Respond")
    /\ UNCHANGED <<others, inputs, locals, fs, probe>>

\* make_temp_dir lines 74-76, run when the with block is left; render_pdf
\* passes keep=False.  rmtree of a directory that is gone raises.
Cleanup(c) ==
    /\ pc[c] = "cleanup"
    /\ fs' = ReleaseTempDir(fs, tmpdir[c], FALSE)
    /\ response' = [response EXCEPT ![c] =
                      IF tmpdir[c] \in DOMAIN fs \/ IsRaised(@) THEN @ ELSE Raised("Cleanup")]
    /\ pc' = [pc EXCEPT ![c] = "done"]
    /\ UNCHANGED <<others, inputs, locals, stages, probe>>

(* -------------------- callbacks made by the engines -------------------- *)

TemplateNames == Names \cup {NameAbsent}

HttpScheme == <<"h", "t", "t", "p", ":", "/", "/">>
TwoSlashes == <<"f", "i", "l", "e", ":", "/", "/">>

Urls == {LOCAL_FILE_URI_PREFIX \o n : n \in Names \cup {NameAbsent, <<>>}}
        \cup {HttpScheme \o n : n \in Names}
        \cup {TwoSlashes \o NameM, <<"/">> \o NameM}
        \cup Names

\* The template engine resolving a name through FunctionLoader(_do_lookup)
\* while _TemplateCompiler.compile runs.
TemplateLookupCall(c) ==
    /\ pc[c] = "templates"
    /\ \E name \in TemplateNames :
        probe' = [call |-> c, kind |-> "template", arg |-> name,
                  result |-> TemplateDoLookup(vfs[c], name)]
    /\ UNCHANGED <<others, pc, inputs, locals, response, stages, fs>>

\* The PDF engine fetching a URL through url_fetcher=_do_lookup while
\* _HtmlCompiler.compile runs.
UrlFetchCall(c) ==
    /\ pc[c] = "pdfs"
    /\ \E url \in Urls :
        probe' = [call |-> c, kind |-> "url", arg |-> url,
                  result |-> HtmlDoLookup(vfs[c], url)]
    /\ UNCHANGED <<others, pc, inputs, locals, response, stages, fs>>

(* ------------------- middlewares (core/middleware.py) ------------------ *)

NEVER_BLOW_PAGE_WIZARD_PREFIXES ==
    <<<<"/", "d", "e", "s", "u", "p", "r", "o", "f", "i", "l", "e", "/", "c", "o", "n", "f", "i", "r", "m", "/">>,
      <<"/", "o", "a", "u", "t", "h", "2", "/">>,
      <<"/", "o", "i", "d", "c", "/">>>>

\* str.startswith
startswith(text, prefix) ==
    /\ Len(text) >= Len(prefix)
    /\ SubSeq(text, 1, Len(prefix)) = prefix

Methods == {"GET", "POST", "HEAD"}

PathConfirm == <<"/", "d", "e", "s", "u", "p", "r", "o", "f", "i", "l", "e", "/", "c", "o", "n", "f", "i", "r", "m", "/", "4">>
PathOauth == <<"/", "o", "a", "u", "t", "h", "2", "/", "a">>
PathOidc == <<"/", "o", "i", "d", "c", "/">>
PathOauthBare == <<"/", "o", "a", "u", "t", "h", "2">>
PathInner == <<"/", "x", "/", "o", "i", "d", "c", "/">>
PathEvents == <<"/", "e", "v", "e", "n", "t", "s", "/">>

\* Request paths: below each prefix, a prefix itself, a prefix without its
\* trailing slash, a prefix that is not at the start, an ordinary page.
Paths == {PathConfirm, PathOauth, PathOidc, PathOauthBare, PathInner, PathEvents}

MaxRelated == 1

\* The session value under "core.utils.page_wizard.related": absent, or the
\* list of the related paths of the active wizard.
Related(paths) == [paths |-> paths]
Sessions == {[related |-> r] : r \in {None} \cup {Related(ps) : ps \in SeqsUpTo(Paths, MaxRelated)}}

InList(x, list) == \E i \in 1..Len(list) : list[i] = x

\* PageWizardMiddleware._should_clear_page_wizard
_should_clear_page_wizard(req, sess) ==
    LET related == sess.related
    IN IF related = None THEN FALSE
       ELSE IF req.method # "GET" THEN FALSE
       ELSE IF InList(req.path, related.paths) THEN FALSE
       ELSE \E i \in 1..Len(NEVER_BLOW_PAGE_WIZARD_PREFIXES) :
               startswith(req.path, NEVER_BLOW_PAGE_WIZARD_PREFIXES[i])

\* page_wizard_clear (core/page_wizard.py): the wizard's keys leave the
\* session.
page_wizard_clear(sess) == [sess EXCEPT !.related = None]

\* request.event and request.organization before any middleware set them;
\* the obj of an admin call that was not made.
Unset == [unset |-> TRUE]

\* PageWizardMiddleware.process_view
PageWizardProcessView ==
    /\ request # None
    /\ request.stage = "received"
    /\ session' = IF _should_clear_page_wizard(request, session)
                  THEN page_wizard_clear(session)
                  ELSE session
    /\ request' = [request EXCEPT !.stage = "page_wizard"]
    /\ UNCHANGED <<renderer, events, organizations, schedule, admin, invite>>

EventSlugs == {"e1", "e2"}
OrganizationSlugs == {"o1", "o2"}

\* The Event table, slug -> slug of its organization, with the Organization
\* table: every event's organization exists.
Databases ==
    {db \in [e : UNION {[D -> OrganizationSlugs] : D \in SUBSET EventSlugs},
             o : SUBSET OrganizationSlugs] :
        \A x \in DOMAIN db.e : db.e[x] \in db.o}

Organization(slug) == [slug |-> slug]
Event(slug, evs) == [slug |-> slug, organization |-> Organization(evs[slug])]

\* Event.objects.filter(slug=slug).select_related("organization").first()
EventFirst(evs, slug) ==
    IF slug.str \in DOMAIN evs THEN Event(slug.str, evs) ELSE None

\* Organization.objects.filter(slug=slug).first()
OrganizationFirst(orgs, slug) ==
    IF slug.str \in orgs THEN Organization(slug.str) ELSE None

\* Values of a URL keyword argument: absent, empty, a slug.
KwargValues(slugs) == {None, Str("")} \cup {Str(x) : x \in slugs}

\* request.resolver_match: None, or a match with its kwargs.
ResolverMatches ==
    {None} \cup {[kwargs |-> [event_slug |-> e, organization_slug |-> o]] :
                    e \in KwargValues(EventSlugs), o \in KwargValues(OrganizationSlugs)}

\* Mutation: organization_slug is looked at whenever no event was found.
EventOrganization_if(req, evs, orgs) ==
    LET resolver_match == req.resolver_match
        event_slug == resolver_match.kwargs.event_slug
        organization_slug == resolver_match.kwargs.organization_slug
        event == IF Truthy(event_slug) THEN EventFirst(evs, event_slug) ELSE None
    IN IF resolver_match = None
       THEN [req EXCEPT !.event = None, !.organization = None]
       ELSE IF event # None
       THEN [req EXCEPT !.event = event, !.organization = event.organization]
       ELSE IF Truthy(organization_slug)
       THEN [req EXCEPT !.event = None,
                        !.organization = OrganizationFirst(orgs, organization_slug)]
       ELSE [req EXCEPT !.event = None, !.organization = None]

\* EventOrganizationMiddleware.process_view, lines 58-67: the request it
\* leaves behind.
EventOrganization(req, evs, orgs) ==
    LET resolver_match == req.resolver_match
        event_slug == resolver_match.kwargs.event_slug
        organization_slug == resolver_match.kwargs.organization_slug
    IN IF resolver_match = None
       THEN [req EXCEPT !.event = None, !.organization = None]
       ELSE IF Truthy(event_slug)
       THEN LET event == EventFirst(evs, event_slug)
            IN IF event # None
               THEN [req EXCEPT !.event = event, !.organization = event.organization]
               ELSE [req EXCEPT !.event = None, !.organization = None]
       ELSE IF Truthy(organization_slug)
       THEN [req EXCEPT !.event = None,
                        !.organization = OrganizationFirst(orgs, organization_slug)]
       ELSE [req EXCEPT !.event = None, !.organization = None]

\* EventOrganizationMiddleware.process_view
EventOrganizationProcessView ==
    /\ request # None
    /\ request.stage = "page_wizard"
    /\ request' = [EventOrganization(request, events, organizations) EXCEPT !.stage = "view"]
    /\ UNCHANGED <<renderer, session, events, organizations, schedule, admin, invite>>

(* ------------- cached times (program_v2/models/program.py) ------------- *)

program_batch_size == 100

MaxPrograms == 2
MaxItems == 2

\* One more program than fits a batch.
ManyPrograms == program_batch_size + 1

\* DateTimeField values; a null field is None.
Time(n) == [time |-> n]
Times == {Time(1), Time(2), Time(3)}

\* ScheduleItem rows of the given programs: start_time and cached_end_time
\* are not null and the item does not end before it starts.
ScheduleItems(ids) ==
    {i \in [program : ids, start_time : Times, cached_end_time : Times] :
        i.start_time.time <= i.cached_end_time.time}

\* The two cached fields of a Program row.
Cached(earliest, latest) ==
    [cached_earliest_start_time |-> earliest, cached_latest_end_time |-> latest]

\* Values the cached fields may hold before a refresh.
StaleCaches == {Cached(None, None), Cached(Time(2), Time(2))}

SubsetsUpTo(S, n) == {T \in SUBSET S : Cardinality(T) <= n}

\* program.schedule_items
schedule_items_of(items, p) == {i \in items : i.program = p}

\* Mutation: the item that starts last is taken.
order_by_start_time_last(qs) ==
    IF qs = {} THEN None
    ELSE CHOOSE i \in qs : \A j \in qs : j.start_time.time <= i.start_time.time

\* qs.order_by("start_time").first()
order_by_start_time_first(qs) ==
    IF qs = {} THEN None
    ELSE CHOOSE i \in qs : \A j \in qs : i.start_time.time <= j.start_time.time

\* qs.order_by("cached_end_time").last()
order_by_cached_end_time_last(qs) ==
    IF qs = {} THEN None
    ELSE CHOOSE i \in qs : \A j \in qs : j.cached_end_time.time <= i.cached_end_time.time

\* Lines 183-187 and 207-211: the cached fields computed for program p.
refreshed_times(items, p) ==
    LET earliest_start_time == order_by_start_time_first(schedule_items_of(items, p))
        latest_end_time == order_by_cached_end_time_last(schedule_items_of(items, p))
    IN Cached(IF earliest_start_time # None THEN earliest_start_time.start_time ELSE None,
              IF latest_end_time # None THEN latest_end_time.cached_end_time ELSE None)

\* itertools.batched(seq, n)
RECURSIVE batched(_, _)
batched(seq, n) ==
    IF seq = <<>> THEN <<>>
    ELSE IF Len(seq) <= n THEN <<seq>>
    ELSE <<SubSeq(seq, 1, n)>> \o batched(SubSeq(seq, n + 1, Len(seq)), n)

\* Lines 194-214: one bulk_update per batch.
RECURSIVE bulk_refresh(_, _, _)
bulk_refresh(progs, batches, items) ==
    IF batches = <<>> THEN progs
    ELSE bulk_refresh([p \in DOMAIN progs |->
                          IF InList(p, Head(batches)) THEN refreshed_times(items, p)
                          ELSE progs[p]],
                      Tail(batches), items)

\* Program.refresh_cached_times
RefreshCachedTimes(p) ==
    /\ p \in DOMAIN programs
    /\ programs' = [programs EXCEPT ![p] = refreshed_times(schedule_items, p)]
    /\ last_op' = [op |-> "refresh_cached_times", programs |-> {p}]
    /\ UNCHANGED <<renderer, web, schedule_items, admin, invite>>

\* Querysets: the programs with ids lo..hi in id order.
IdRange(lo, hi) == [k \in 1..(hi - lo + 1) |-> lo + k - 1]
Querysets(progs) ==
    LET n == Len(progs)
    IN {IdRange(lo, hi) : lo \in {1, 2}, hi \in {n - 1, n}}

\* Program.refresh_cached_times_qs
RefreshCachedTimesQs(queryset) ==
    /\ programs' = bulk_refresh(programs, batched(queryset, program_batch_size), schedule_items)
    /\ last_op' = [op |-> "refresh_cached_times_qs",
                   programs |-> {queryset[k] : k \in 1..Len(queryset)}]
    /\ UNCHANGED <<renderer, web, schedule_items, admin, invite>>

NextPrograms ==
    \/ \E p \in DOMAIN programs : RefreshCachedTimes(p)
    \/ \E queryset \in Querysets(programs) : RefreshCachedTimesQs(queryset)

(* ------------------------ EventAdmin (core/admin.py) ------------------- *)

\* ModelAdmin.readonly_fields, which EventAdmin does not override.
readonly_fields == <<>>

\* Mutation: slug is read-only on the add page too.
get_readonly_fields_always(req, obj) == readonly_fields \o <<"slug">>

\* EventAdmin.get_readonly_fields; a model instance is truthy.
get_readonly_fields(req, obj) ==
    IF obj # None THEN readonly_fields \o <<"slug">> ELSE readonly_fields

\* The admin asks for the read-only fields of the add page (obj None) or of
\* the change page of an existing event.
GetReadonlyFields(obj) ==
    /\ obj = None \/ obj \in {Event(x, events) : x \in DOMAIN events}
    /\ admin_obj' = obj
    /\ admin_readonly' = get_readonly_fields(request, obj)
    /\ UNCHANGED <<renderer, web, schedule, invite>>

NextAdmin ==
    \E obj \in {None} \cup {Event(x, events) : x \in DOMAIN events} : GetReadonlyFields(obj)

(* ------- programme_accept_invitation_view (programme/views) ------------ *)

MaxExtraInvites == 1

\* The states of an Invitation; the view names 'valid' and 'used'.
InvitationStates == {"valid", "used", "revoked", "rejected"}

\* An Invitation row and a Programme row.  form_data names the request whose
\* form was saved last, applied whether apply_state ran after a save.
Invitation(state, extra_invites) == [state |-> state, extra_invites |-> extra_invites]
Programme(host_can_edit) == [host_can_edit |-> host_can_edit, form_data |-> "-", applied |-> FALSE]

\* No invitation is being accepted.
InviteIdle ==
    /\ invitation = None
    /\ programme = None
    /\ programme_roles = {}
    /\ sired_invitations = {}
    /\ view = <<>>

redirect(to) == [status |-> 302, to |-> to]
render(template, host_can_invite_more) ==
    [status |-> 200, template |-> template, host_can_invite_more |-> host_can_invite_more]
Http404 == [status |-> 404]

\* Mutation: only a used invitation turns the request away.
invitation_gate_used_only(inv, prog) ==
    IF inv.state = "used" /\ prog.host_can_edit
    THEN [level |-> "warning", response |-> redirect("programme_profile_detail_view")]
    ELSE IF inv.state = "used" /\ ~prog.host_can_edit
    THEN [level |-> "error", response |-> redirect("programme_profile_view")]
    ELSE None

\* The if/elif chain at the head of the view: the message and redirect that
\* turn the request away, or None when the view goes on.
invitation_gate(inv, prog) ==
    IF inv.state = "used" /\ prog.host_can_edit
    THEN [level |-> "warning", response |-> redirect("programme_profile_detail_view")]
    ELSE IF inv.state = "used" /\ ~prog.host_can_edit
    THEN [level |-> "error", response |-> redirect("programme_profile_view")]
    ELSE IF ~(inv.state = "valid" /\ prog.host_can_edit)
    THEN [level |-> "error", response |-> redirect("programme_profile_view")]
    ELSE None

\* Invitation.accept: the invitation is saved as used and a ProgrammeRole of
\* the person is created and returned.
accept(inv, person) ==
    [invitation |-> [inv EXCEPT !.state = "used"], programme_role |-> [person |-> person]]

\* ProgrammeSelfServiceForm.save of the form bound to the request of c on
\* the loaded programme.
form_save(prog, c) == [prog EXCEPT !.form_data = c]

\* The extra invitations of the formset, each given its sire and saved.
extra_invites_saved(forms, programme_role) ==
    {[sire |-> programme_role, form |-> i] : i \in 1..forms}

\* Programme.apply_state.
apply_state(prog) == [prog EXCEPT !.applied = TRUE]

\* get_object_or_404 and invitation.programme: the request of c reads the
\* Invitation and its Programme, or answers 404.
LoadInvitation(c) ==
    /\ c \in DOMAIN view
    /\ view[c].pc = "load"
    /\ IF invitation = None
       THEN view' = [view EXCEPT ![c].pc = "done", ![c].response = Http404]
       ELSE view' = [view EXCEPT ![c].pc = "handle",
                                 ![c].invitation = invitation,
                                 ![c].programme = programme]
    /\ UNCHANGED <<renderer, web, schedule, admin, database>>

\* The rest of the view on what the request read: turned away by the gate,
\* or a valid POST accepts, saves and invites, or the page is rendered.
HandleInvitation(c) ==
    /\ c \in DOMAIN view
    /\ view[c].pc = "handle"
    /\ LET inv == view[c].invitation
           prog == view[c].programme
           gate == invitation_gate(inv, prog)
           page == render("programme_accept_invitation_view.jade", inv.extra_invites > 0)
           accepted == accept(inv, c)
           saved == form_save(prog, c)
       IN  IF gate # None
           THEN /\ view' = [view EXCEPT ![c].pc = "done",
                                        ![c].messages = @ \o <<gate.level>>,
                                        ![c].response = gate.response]
                /\ UNCHANGED database
           ELSE IF view[c].method = "POST"
           THEN IF view[c].form_valid /\ view[c].formset_valid
                THEN /\ invitation' = accepted.invitation
                     /\ programme_roles' = programme_roles \cup {accepted.programme_role}
                     /\ sired_invitations' = sired_invitations \cup
                            extra_invites_saved(view[c].forms, accepted.programme_role)
                     /\ programme' = apply_state(saved)
                     /\ view' = [view EXCEPT ![c].pc = "done",
                                             ![c].programme = apply_state(saved),
                                             ![c].messages = @ \o <<"success">>,
                                             ![c].response = redirect("programme_profile_detail_view")]
                ELSE /\ view' = [view EXCEPT ![c].pc = "done",
                                             ![c].messages = @ \o <<"error">>,
                                             ![c].response = page]
                     /\ UNCHANGED database
           ELSE /\ view' = [view EXCEPT ![c].pc = "done", ![c].response = page]
                /\ UNCHANGED database
    /\ UNCHANGED <<renderer, web, schedule, admin>>

NextInvitation ==
    \/ \E c \in Calls : LoadInvitation(c)
    \/ \E c \in Calls : HandleInvitation(c)

(* ---------------------------- specification ---------------------------- *)

FileCollections == SeqsUpTo(FileVersion, MaxFiles)
DataSets == SeqsUpTo(Rows, MaxRows)

Fresh ==
    /\ main = [c \in Calls |-> None]
    /\ vfs = [c \in Calls |-> <<>>]
    /\ tmpdir = [c \in Calls |-> NoDir]
    /\ sources = [c \in Calls |-> <<>>]
    /\ results = [c \in Calls |-> <<>>]
    /\ name_tpl = [c \in Calls |-> None]
    /\ response = [c \in Calls |-> None]
    /\ stages = [c \in Calls |-> <<>>]
    /\ fs = <<>>
    /\ probe = None

\* No request is being handled, the tables are empty and no admin page is
\* open.
OthersIdle ==
    /\ request = None
    /\ session = None
    /\ events = <<>>
    /\ organizations = {}
    /\ programs = <<>>
    /\ schedule_items = {}
    /\ last_op = None
    /\ admin_obj = Unset
    /\ admin_readonly = <<>>
    /\ InviteIdle

\* The arguments of a call that is never made.
NoCall == [f |-> <<>>, p |-> None, t |-> "t1", d |-> <<>>, ar |-> FALSE]

\* render_pdf entered by the calls of DOMAIN args with these arguments.
Entered(args) ==
    LET arg(c) == IF c \in DOMAIN args THEN args[c] ELSE NoCall
    IN /\ pc = [c \in Calls |-> IF c \in DOMAIN args THEN "start" ELSE "idle"]
       /\ files = [c \in Calls |-> arg(c).f]
       /\ filename_pattern = [c \in Calls |-> arg(c).p]
       /\ title_pattern = [c \in Calls |-> arg(c).t]
       /\ data = [c \in Calls |-> arg(c).d]
       /\ return_archive = [c \in Calls |-> arg(c).ar]
       /\ Fresh
       /\ OthersIdle

\* One render_pdf call, "a", entered with arbitrary arguments.
Init ==
    \E f \in FileCollections, p \in FilenamePatterns, t \in TitlePatterns,
       d \in DataSets, ar \in BOOLEAN :
        Entered([c \in {"a"} |-> [f |-> f, p |-> p, t |-> t, d |-> d, ar |-> ar]])

Next ==
    \E c \in Calls :
        \/ Validate(c)
        \/ BuildVFS(c)
        \/ MakeTempDir(c)
        \/ CompileTemplates(c)
        \/ CompilePdfs(c)
        \/ Package(c)
        \/ Respond(c)
        \/ Cleanup(c)

Spec == Init /\ [][Next]_vars

\* A data set of BigRows rows, rows alternating.
LongData == [i \in 1..BigRows |-> IF i % 2 = 1 THEN Row1 ELSE Row2]

\* One render_pdf call, with few files and a short data set or with a Main
\* file and the long data set.
InitBig ==
    \/ \E f \in SeqsUpTo(FileVersion, 1), p \in {None, Str("n1")},
          d \in SeqsUpTo(Rows, 1), ar \in BOOLEAN :
           Entered([c \in {"a"} |-> [f |-> f, p |-> p, t |-> "t1", d |-> d, ar |-> ar]])
    \/ Entered([c \in {"a"} |-> [f |-> <<FV(NameM, TypeMain, "plain")>>, p |-> None,
                                  t |-> "t1", d |-> LongData, ar |-> TRUE]])

SpecBig == InitBig /\ [][Next]_vars

\* One render_pdf call during which the engines call back.
InitCallbacks ==
    \E f \in FileCollections, d \in SeqsUpTo(Rows, 1), ar \in BOOLEAN :
        Entered([c \in {"a"} |-> [f |-> f, p |-> None, t |-> "t1", d |-> d, ar |-> ar]])

NextCallbacks ==
    \/ Next
    \/ \E c \in Calls : TemplateLookupCall(c) \/ UrlFetchCall(c)

SpecCallbacks == InitCallbacks /\ [][NextCallbacks]_vars

\* Arguments of the calls that run side by side.
TwoArgs ==
    [f : {<<FV(NameM, TypeMain, "plain")>>, <<FV(NameX, TypeCSV, "plain")>>},
     p : {None, Str("n1")},
     t : {"t1"},
     d : {<<Row1>>, <<Row2, Row1>>},
     ar : BOOLEAN]

\* Two render_pdf calls, "a" and "b", entered together; their steps interleave.
InitTwo == \E args \in [Calls -> TwoArgs] : Entered(args)

SpecTwo == InitTwo /\ [][Next]_vars

MaxLutFiles == 3

\* Two file names that make_name sends to the same lookup-table name.
NameDash == <<"x", "-">>
NameUnder == <<"x", "_">>

LutFiles ==
    {FV(NameDash, TypeCSV, "plain"), FV(NameDash, TypeCSV, "inc"),
     FV(NameUnder, TypeCSV, "plain"), FV(NameUnder, TypeCSV, "inc"),
     FV(NameDash, TypeHTML, "plain")}

\* One render_pdf call with a Main file followed by up to MaxLutFiles files
\* whose names collide as lookup-table names.
InitLut ==
    \E tables \in SeqsUpTo(LutFiles, MaxLutFiles), d \in SeqsUpTo(Rows, 1), ar \in BOOLEAN :
        Entered([c \in {"a"} |-> [f |-> <<FV(NameM, TypeMain, "plain")>> \o tables,
                                  p |-> None, t |-> "t1", d |-> d, ar |-> ar]])

SpecLut == InitLut /\ [][Next]_vars

MaxSources == 2

\* Base names of HTML sources: those _TemplateCompiler writes and names with
\* several dots, without a dot and with a leading dot only.
SourceBases ==
    {Master \o ExtHtml, Fmt03d(1) \o ExtHtml, <<"m", ".", "x", ".", "y">>,
     <<"m">>, <<".", "x">>}

\* _HtmlCompiler.compile entered by render_pdf with any list of up to
\* MaxSources sources, the files of which are on disk.
InitHtml ==
    \E srcs \in SeqsUpTo([name : {[dir |-> "t1", sub |-> "src", base |-> b] : b \in SourceBases},
                           row : Rows \cup {None}], MaxSources),
       ar \in BOOLEAN :
        /\ pc = [c \in Calls |-> IF c = "a" THEN "pdfs" ELSE "idle"]
        /\ files = [c \in Calls |-> IF c = "a" THEN <<FV(NameM, TypeMain, "plain")>> ELSE <<>>]
        /\ filename_pattern = [c \in Calls |-> None]
        /\ title_pattern = [c \in Calls |-> "t1"]
        /\ data = [c \in Calls |-> <<>>]
        /\ return_archive = [c \in Calls |-> c = "a" /\ ar]
        /\ main = [c \in Calls |-> IF c = "a" THEN FV(NameM, TypeMain, "plain") ELSE None]
        /\ vfs = [c \in Calls |-> files[c]]
        /\ tmpdir = [c \in Calls |-> IF c = "a" THEN "t1" ELSE NoDir]
        /\ sources = [c \in Calls |-> IF c = "a" THEN srcs ELSE <<>>]
        /\ results = [c \in Calls |-> <<>>]
        /\ name_tpl = [c \in Calls |-> None]
        /\ response = [c \in Calls |-> None]
        /\ stages = [c \in Calls |-> IF c = "a" THEN SubSeq(StageOrder, 1, 3) ELSE <<>>]
        /\ fs = [d \in {"t1"} |->
                   [src |-> [b \in {srcs[i].name.base : i \in 1..Len(srcs)} |->
                               Html(EmptyTitle, <<>>, TRUE)],
                    result |-> <<>>,
                    zip |-> None]]
        /\ probe = None
        /\ OthersIdle

NextHtml == \E c \in Calls : CompilePdfs(c) \/ Package(c) \/ Respond(c) \/ Cleanup(c)

SpecHtml == InitHtml /\ [][NextHtml]_vars

MaxResults == 2

\* A PDF as _HtmlCompile writes it for a merged document of these rows.
PdfOf(dat) ==
    [html |-> Html(EmptyTitle, [i \in 1..Len(dat) |->
                                  TemplateRender(<<>>, "plain", dat[i], <<>>)], TRUE),
     stylesheets |-> <<>>]

\* Lines 141-154 of render_pdf entered with any list of up to MaxResults
\* results, the files of which are on disk.
InitRespond ==
    \E res \in SeqsUpTo([name : {[dir |-> "t1", sub |-> "result", base |-> b] :
                                    b \in {Master \o ExtPdf, Fmt03d(1) \o ExtPdf}},
                          row : Rows \cup {None}], MaxResults),
       tpl \in {from_string(p) : p \in {None, Str("n1"), Str("n0")}} :
        /\ pc = [c \in Calls |-> IF c = "a" THEN "respond" ELSE "idle"]
        /\ files = [c \in Calls |-> IF c = "a" THEN <<FV(NameM, TypeMain, "plain")>> ELSE <<>>]
        /\ filename_pattern = [c \in Calls |-> IF c = "a" /\ tpl # None THEN Str(tpl.tpl) ELSE None]
        /\ title_pattern = [c \in Calls |-> "t1"]
        /\ data = [c \in Calls |-> <<>>]
        /\ return_archive = [c \in Calls |-> FALSE]
        /\ main = [c \in Calls |-> IF c = "a" THEN FV(NameM, TypeMain, "plain") ELSE None]
        /\ vfs = [c \in Calls |-> files[c]]
        /\ tmpdir = [c \in Calls |-> IF c = "a" THEN "t1" ELSE NoDir]
        /\ sources = [c \in Calls |-> <<>>]
        /\ results = [c \in Calls |-> IF c = "a" THEN res ELSE <<>>]
        /\ name_tpl = [c \in Calls |-> IF c = "a" THEN tpl ELSE None]
        /\ response = [c \in Calls |-> None]
        /\ stages = [c \in Calls |-> IF c = "a" THEN SubSeq(StageOrder, 1, 5) ELSE <<>>]
        /\ fs = [d \in {"t1"} |->
                   [src |-> <<>>,
                    result |-> [b \in {res[i].name.base : i \in 1..Len(res)} |->
                                  PdfOf(<<(CHOOSE r \in {res[i] : i \in 1..Len(res)} :
                                              r.name.base = b).row>>)],
                    zip |-> None]]
        /\ probe = None
        /\ OthersIdle

NextRespond == \E c \in Calls : Respond(c) \/ Cleanup(c)

SpecRespond == InitRespond /\ [][NextRespond]_vars

\* No render_pdf call is made.
RendererIdle ==
    /\ pc = [c \in Calls |-> "idle"]
    /\ files = [c \in Calls |-> <<>>]
    /\ filename_pattern = [c \in Calls |-> None]
    /\ title_pattern = [c \in Calls |-> "t1"]
    /\ data = [c \in Calls |-> <<>>]
    /\ return_archive = [c \in Calls |-> FALSE]
    /\ Fresh

\* A request as the middlewares receive it.
Received(method, path, resolver_match) ==
    [stage |-> "received", method |-> method, path |-> path,
     resolver_match |-> resolver_match, event |-> Unset, organization |-> Unset]

NextWeb == PageWizardProcessView \/ EventOrganizationProcessView

\* One request of any method and path with any session, through the
\* process_view hooks.
InitPageWizard ==
    /\ RendererIdle
    /\ \E m \in Methods, p \in Paths : request = Received(m, p, None)
    /\ session \in Sessions
    /\ events = <<>>
    /\ organizations = {}
    /\ programs = <<>>
    /\ schedule_items = {}
    /\ last_op = None
    /\ admin_obj = Unset
    /\ admin_readonly = <<>>
    /\ InviteIdle

SpecPageWizard == InitPageWizard /\ [][NextWeb]_vars

\* One GET request with any resolver match against any Event and
\* Organization tables, through the process_view hooks.
InitEventOrganization ==
    /\ RendererIdle
    /\ \E rm \in ResolverMatches : request = Received("GET", PathEvents, rm)
    /\ session = [related |-> None]
    /\ \E db \in Databases : events = db.e /\ organizations = db.o
    /\ programs = <<>>
    /\ schedule_items = {}
    /\ last_op = None
    /\ admin_obj = Unset
    /\ admin_readonly = <<>>
    /\ InviteIdle

SpecEventOrganization == InitEventOrganization /\ [][NextWeb]_vars

\* The Program and ScheduleItem tables: up to MaxPrograms programs with any
\* cached values and up to MaxItems schedule items, or ManyPrograms programs
\* of which the last has schedule items.
InitPrograms ==
    /\ RendererIdle
    /\ request = None
    /\ session = None
    /\ events = <<>>
    /\ organizations = {}
    /\ \/ /\ programs \in UNION {[1..n -> StaleCaches] : n \in 1..MaxPrograms}
          /\ schedule_items \in SubsetsUpTo(ScheduleItems(DOMAIN programs), MaxItems)
       \/ /\ \E c \in StaleCaches :
                programs = [p \in 1..ManyPrograms |->
                              IF p = ManyPrograms THEN c ELSE Cached(None, None)]
          /\ schedule_items \in SubsetsUpTo(ScheduleItems({ManyPrograms}), MaxItems)
    /\ last_op = None
    /\ admin_obj = Unset
    /\ admin_readonly = <<>>
    /\ InviteIdle

SpecPrograms == InitPrograms /\ [][NextPrograms]_vars

\* The Event admin serving any request against any Event table.
InitAdmin ==
    /\ RendererIdle
    /\ \E m \in Methods, p \in Paths : request = Received(m, p, None)
    /\ session = [related |-> None]
    /\ \E db \in Databases : events = db.e /\ organizations = db.o
    /\ programs = <<>>
    /\ schedule_items = {}
    /\ last_op = None
    /\ admin_obj = Unset
    /\ admin_readonly = <<>>
    /\ InviteIdle

SpecAdmin == InitAdmin /\ [][NextAdmin]_vars

\* A request of the view that has read nothing yet.
Arrived(method, form_valid, formset_valid, forms) ==
    [pc |-> "load", method |-> method, form_valid |-> form_valid,
     formset_valid |-> formset_valid, forms |-> forms,
     invitation |-> None, programme |-> None, response |-> None, messages |-> <<>>]

ViewRequests ==
    {Arrived(m, fv, sv, n) : m \in {"GET", "POST"}, fv \in BOOLEAN, sv \in BOOLEAN,
                             n \in 0..MaxExtraInvites}

\* Two concurrent requests for one invitation code, which names no
\* invitation or an invitation in any state of a programme the host can or
\* cannot edit.
InitInvitation ==
    /\ RendererIdle
    /\ request = None
    /\ session = None
    /\ events = <<>>
    /\ organizations = {}
    /\ programs = <<>>
    /\ schedule_items = {}
    /\ last_op = None
    /\ admin_obj = Unset
    /\ admin_readonly = <<>>
    /\ \/ invitation = None /\ programme = None
       \/ /\ \E s \in InvitationStates, n \in 0..MaxExtraInvites : invitation = Invitation(s, n)
          /\ \E e \in BOOLEAN : programme = Programme(e)
    /\ programme_roles = {}
    /\ sired_invitations = {}
    /\ view \in [Calls -> ViewRequests]

SpecInvitation == InitInvitation /\ [][NextInvitation]_vars

(* ------------------------------ properties ----------------------------- *)

NoMainTyped(fls) == \A i \in 1..Len(fls) : fls[i].type # TypeMain

\* C1: a call whose file collection holds no Main-typed file answers 404
\* "Main file not found" straight from validation: it never creates a
\* temporary directory, compiles nothing and writes nothing.
C1_NoMainNotFound ==
    \A c \in Calls :
        pc[c] # "idle" /\ NoMainTyped(files[c]) =>
            /\ pc[c] \in {"start", "done"}
            /\ tmpdir[c] = NoDir
            /\ sources[c] = <<>>
            /\ results[c] = <<>>
            /\ DOMAIN fs = {}
            /\ pc[c] = "done" =>
                  /\ response[c].status = 404
                  /\ response[c].body = MainNotFound

C1_Witness ==
    /\ pc["a"] = "done"
    /\ files["a"] # <<>>
    /\ NoMainTyped(files["a"])
    /\ response["a"].status = 404

\* C2: when a call has completed, by returning or by raising at any stage,
\* the temporary directory it created does not exist.
C2_TempDirReleased ==
    \A c \in Calls : pc[c] = "done" => tmpdir[c] \notin DOMAIN fs

C2_Witness ==
    /\ pc["a"] = "done"
    /\ tmpdir["a"] # NoDir
    /\ return_archive["a"]
    /\ response["a"] = Raised("Package")
    /\ Len(results["a"]) = 2

Compiled(c) == pc[c] \in {"package", "respond"}

\* C4: merged output (split_output false) of N >= 0 rows is exactly one HTML
\* file, master.html, and exactly one PDF, master.pdf; both carry the row
\* when N = 1 and no row when N # 1.
C4_MergedOutput ==
    \A c \in Calls :
        ~return_archive[c] /\ Compiled(c) =>
            LET d == tmpdir[c]
                row == IF Len(data[c]) = 1 THEN data[c][1] ELSE None
            IN /\ Len(sources[c]) = 1
               /\ sources[c][1].name = [dir |-> d, sub |-> "src", base |-> Master \o ExtHtml]
               /\ sources[c][1].row = row
               /\ DOMAIN fs[d].src = {Master \o ExtHtml}
               /\ Len(results[c]) = 1
               /\ results[c][1].name = [dir |-> d, sub |-> "result", base |-> Master \o ExtPdf]
               /\ results[c][1].row = row
               /\ DOMAIN fs[d].result = {Master \o ExtPdf}

C4_Witness ==
    /\ ~return_archive["a"]
    /\ pc["a"] = "package"
    /\ Len(data["a"]) = 2
    /\ results["a"][1].row = None

\* A Main file was found and no stage raised.
Answered(c) ==
    /\ pc[c] \in {"cleanup", "done"}
    /\ main[c] # None
    /\ ~IsRaised(response[c])

\* C6: an archive call that does not raise answers 200 application/zip; the
\* zip holds one entry per compiled result (one per row), in result order,
\* named by the naming template evaluated against that result's row, and by
\* the result's base file name (001.pdf, ...) when no naming template was
\* supplied (or the template gives no usable name).
C6_ArchiveEntries ==
    \A c \in Calls :
        return_archive[c] /\ Answered(c) =>
            LET z == response[c].body.entries
                p == filename_pattern[c]
            IN /\ response[c].status = 200
               /\ response[c].content_type = "application/zip"
               /\ Len(z) = Len(results[c])
               /\ Len(z) = Len(data[c])
               /\ \A i \in 1..Len(z) :
                    /\ z[i].arcname =
                          IF p = None \/ p = Str("") \/ p = Str("n0")
                          THEN [text |-> results[c][i].name.base]
                          ELSE [pattern |-> p.str, row |-> results[c][i].row]
                    /\ z[i].content.html.body[1].row = data[c][i]

C6_Witness ==
    /\ return_archive["a"]
    /\ pc["a"] = "done"
    /\ Answered("a")
    /\ filename_pattern["a"] = None
    /\ response["a"].status = 200
    /\ Len(response["a"].body.entries) = 2
    /\ response["a"].body.entries[2].arcname = [text |-> <<"0", "0", "2">> \o ExtPdf]

\* C7: the stages run in the order Validate, BuildVFS, CompileTemplates,
\* CompilePdfs, Package, Respond, each at most once; a stage that raises is
\* the last one to run and the call ends raising, and a 200 answer carries
\* the documents of all rows.
C7_StageOrder ==
    \A c \in Calls :
        LET log == stages[c]
            r == response[c]
        IN /\ \A i \in 1..Len(log) : log[i] = StageOrder[i]
           /\ r # None /\ IsRaised(r) => log[Len(log)] = r.raised
           /\ r # None /\ ~IsRaised(r) /\ r.status = 200 =>
                 /\ log = StageOrder
                 /\ IF return_archive[c]
                    THEN Len(r.body.entries) = Len(data[c])
                    ELSE /\ Len(r.body.html.body) = Len(data[c])
                         /\ r.body.html.footer

C7_Witness ==
    /\ pc["a"] = "done"
    /\ response["a"] = Raised("CompilePdfs")
    /\ stages["a"] = <<"Validate", "BuildVFS", "CompileTemplates", "CompilePdfs">>
    /\ return_archive["a"]
    /\ Len(results["a"]) = 1
    /\ Len(data["a"]) = 2

DigitValue(ch) == CHOOSE d \in 0..9 : Digit(d) = ch

RECURSIVE DecVal(_)
DecVal(digits) ==
    IF digits = <<>> THEN 0
    ELSE 10 * DecVal(SubSeq(digits, 1, Len(digits) - 1)) + DigitValue(digits[Len(digits)])

Digits == {Digit(d) : d \in 0..9}

\* base is the decimal number i, zero-padded to at least three digits,
\* followed by ext.
IsNumbered(base, i, ext) ==
    LET n == Len(base) - Len(ext)
        stem == SubSeq(base, 1, n)
    IN /\ n >= 3
       /\ SubSeq(base, n + 1, Len(base)) = ext
       /\ \A k \in 1..n : stem[k] \in Digits
       /\ DecVal(stem) = i
       /\ n > 3 => stem[1] # "0"

SplitCompiled(c, exact) ==
    LET d == tmpdir[c]
        N == Len(data[c])
    IN /\ Len(sources[c]) = N
       /\ Len(results[c]) = N
       /\ Cardinality(DOMAIN fs[d].src) = N
       /\ Cardinality(DOMAIN fs[d].result) = N
       /\ \A i \in 1..N :
            /\ sources[c][i].row = data[c][i]
            /\ results[c][i].row = data[c][i]
            /\ IsNumbered(sources[c][i].name.base, i, ExtHtml)
            /\ IsNumbered(results[c][i].name.base, i, ExtPdf)
            /\ exact => Len(sources[c][i].name.base) = 3 + Len(ExtHtml)
            /\ exact => Len(results[c][i].name.base) = 3 + Len(ExtPdf)
            /\ Exists(fs, sources[c][i].name)
            /\ Exists(fs, results[c][i].name)
            /\ ReadFile(fs, sources[c][i].name).body[1].row = data[c][i]
            /\ ReadFile(fs, results[c][i].name).html.body[1].row = data[c][i]

\* C3 (as amended): split output of N rows is N HTML files and N PDFs in row
\* order; the i-th is named by the decimal number i, zero-padded to at least
\* three digits (001 ... 999, 1000, ...), and is paired with the i-th row.
C3_SplitOutput ==
    \A c \in Calls : return_archive[c] /\ Compiled(c) => SplitCompiled(c, FALSE)

\* C3 as stated: every sequence number has exactly three digits.
C3_ThreeDigits ==
    \A c \in Calls : return_archive[c] /\ Compiled(c) => SplitCompiled(c, TRUE)

C3_Witness ==
    /\ return_archive["a"]
    /\ pc["a"] = "package"
    /\ Len(data["a"]) = BigRows
    /\ Len(results["a"]) = BigRows
    /\ results["a"][2].name.base = <<"0", "0", "2">> \o ExtPdf

\* C5: without archive, the answer follows the number of compiled results:
\* one result gives 200 application/pdf carrying that PDF under the name the
\* naming template gives for its row (result.pdf without a usable name),
\* no result gives 201 with an empty body, several results give 401.
C5_NonArchiveAnswer ==
    \A c \in Calls :
        ~return_archive[c] /\ Answered(c) =>
            LET r == response[c]
                n == Len(results[c])
                t == name_tpl[c]
            IN /\ n = 1 =>
                    /\ r.status = 200
                    /\ r.content_type = "application/pdf"
                    /\ r.filename = IF t = None \/ t.tpl = "n0"
                                    THEN [text |-> ResultPdf]
                                    ELSE [pattern |-> t.tpl, row |-> results[c][1].row]
               /\ n = 0 => r.status = 201 /\ r.body = EmptyBody
               /\ n > 1 => r.status = 401

C5_Witness ==
    /\ pc["a"] = "done"
    /\ Answered("a")
    /\ Len(results["a"]) = 2
    /\ response["a"].status = 401

Renderable(type) == type = TypeMain \/ type = TypeHTML \/ type = TypeCSS

\* The entry of the Virtual File Set under a name, if any.
Entries(v, name) == {i \in 1..Len(v) : v[i].file_name = name}

\* C8: a template name resolves only when it is a key of the Virtual File
\* Set whose file is of type Main, HTML or CSS, and then to that file's
\* content; any other name is "template not found".  When the Main file's
\* name does not resolve, the render raises in template compilation and
\* leaves no source behind.
C8_TemplateResolution ==
    /\ probe # None /\ probe.kind = "template" =>
          LET v == vfs[probe.call]
              hits == {i \in Entries(v, probe.arg) : Renderable(v[i].type)}
          IN IF hits = {}
             THEN probe.result = None
             ELSE /\ probe.result # None
                  /\ \E i \in hits : probe.result.src = v[i].data
    /\ \A c \in Calls :
          /\ Len(stages[c]) >= 3
          /\ \A i \in Entries(vfs[c], main[c].file_name) : ~Renderable(vfs[c][i].type)
          => /\ response[c] = Raised("CompileTemplates")
             /\ sources[c] = <<>>
             /\ results[c] = <<>>

C8_Witness ==
    /\ probe # None
    /\ probe.kind = "template"
    /\ probe.arg = main[probe.call].file_name
    /\ \E i \in Entries(vfs[probe.call], probe.arg) : vfs[probe.call][i].type = TypeCSV
    /\ probe.result = None

\* C9: the resource resolver fails with ValueError for every URL that does
\* not start with "file:///", whether or not the URL is a key of the Virtual
\* File Set; otherwise it returns the content stored under the rest of the
\* URL, with redirected_url the rest, or fails with KeyError when the rest is
\* not a key.
C9_UrlResolution ==
    probe # None /\ probe.kind = "url" =>
        LET v == vfs[probe.call]
            url == probe.arg
            P == LOCAL_FILE_URI_PREFIX
            starts == /\ Len(url) >= Len(P)
                      /\ \A k \in 1..Len(P) : url[k] = P[k]
            rest == [k \in 1..(Len(url) - Len(P)) |-> url[k + Len(P)]]
        IN IF ~starts THEN probe.result = [error |-> "ValueError"]
           ELSE IF Entries(v, rest) = {} THEN probe.result = [error |-> "KeyError"]
           ELSE \E i \in Entries(v, rest) :
                   probe.result = [file_obj |-> v[i].data, redirected_url |-> rest]

C9_Witness ==
    /\ probe # None
    /\ probe.kind = "url"
    /\ Entries(vfs[probe.call], probe.arg) # {}
    /\ probe.result = [error |-> "ValueError"]

\* The call holds a temporary directory.
Live(c) == pc[c] \in {"templates", "pdfs", "package", "respond", "cleanup"}

\* What the call with c's arguments computes by itself in a directory d of
\* its own when nothing raises.
SoloRun(c, d) ==
    LET v == files_to_vfs(files[c])
        t == TemplateCompile(v, find_main(files[c]).file_name, [dir |-> d, sub |-> "src"],
                             data[c], title_pattern[c], return_archive[c], NoFail)
        disk1 == WriteAll([x \in {d} |-> EmptyDir], d, "src", t.written)
        h == HtmlCompile(v, t.sources, [dir |-> d, sub |-> "result"], disk1, NoFail)
        disk2 == WriteAll(disk1, d, "result", h.written)
        tpl == IF Truthy(filename_pattern[c]) THEN from_string(filename_pattern[c]) ELSE None
    IN [results |-> h.results,
        response |-> IF return_archive[c]
                     THEN FileResponse([entries |-> ZipEntries(h.results, tpl, disk2, NoFail).entries],
                                       "application/zip", None)
                     ELSE NonArchiveResponse(h.results, tpl, disk2)]

\* C10: two interleaved calls hold different temporary directories; no step
\* of one call changes or removes the directory of the other; and a call
\* that does not raise ends with the results and the response it computes
\* when run alone.
C10_Isolation ==
    /\ [](\A c \in Calls :
            /\ \A o \in Calls \ {c} : Live(c) /\ Live(o) => tmpdir[c] # tmpdir[o]
            /\ Answered(c) =>
                  /\ results[c] = SoloRun(c, tmpdir[c]).results
                  /\ response[c] = SoloRun(c, tmpdir[c]).response)
    /\ [][\A c \in Calls :
            Live(c) /\ pc'[c] = pc[c] =>
                /\ tmpdir[c] \in DOMAIN fs'
                /\ fs'[tmpdir[c]] = fs[tmpdir[c]]]_vars

C10_Witness ==
    /\ pc["a"] = "respond"
    /\ pc["b"] = "pdfs"
    /\ return_archive["a"] /\ return_archive["b"]
    /\ data["a"] # data["b"]
    /\ tmpdir["a"] # tmpdir["b"]
    /\ DOMAIN fs = {tmpdir["a"], tmpdir["b"]}
    /\ DOMAIN fs[tmpdir["a"]].src \cap DOMAIN fs[tmpdir["b"]].src # {}

MainCount(fls) == Cardinality({i \in 1..Len(fls) : fls[i].type = TypeMain})

\* The call went on after line 89.
PastValidation(c) == pc[c] = "vfs" \/ Len(stages[c]) >= 2

VfsBuilt(c) == Len(stages[c]) >= 2

\* C12: files_to_vfs never raises; the keys of its result are exactly the
\* supplied file names, every key maps to a supplied FileVersion of that
\* name, and of several supplied FileVersions of one name the mapping holds
\* the latest in supplied order.
C12_VfsLastWins ==
    \A c \in Calls :
        VfsBuilt(c) =>
            LET f == files[c]
                v == vfs[c]
            IN /\ response[c] # Raised("BuildVFS")
               /\ pc[c] # "vfs"
               /\ VfsKeys(v) = {f[i].file_name : i \in 1..Len(f)}
               /\ \A i, j \in 1..Len(v) : v[i].file_name = v[j].file_name => i = j
               /\ \A i \in 1..Len(f) :
                    (\A j \in (i + 1)..Len(f) : f[j].file_name # f[i].file_name)
                        => VfsGet(v, f[i].file_name) = f[i]

C12_Witness ==
    /\ VfsBuilt("a")
    /\ Len(files["a"]) = 2
    /\ files["a"][1].file_name = files["a"][2].file_name
    /\ files["a"][1] # files["a"][2]
    /\ vfs["a"] = <<files["a"][2]>>

\* The lookup tables handed to the Main template for the first row.
BoundTables(c) ==
    ReadFile(fs, sources[c][1].name).body[1].lookups

\* C13: the Main template is rendered with one global per normalised name
\* of a CSV-typed file of the Virtual File Set, and the table under a name
\* is parsed from the last supplied CSV file that normalises to it, also
\* when a colliding file name is supplied more than once.
C13_LastSuppliedTable ==
    \A c \in Calls :
        Compiled(c) /\ data[c] # <<>> =>
            LET f == files[c]
                v == vfs[c]
                L == BoundTables(c)
                csv(k) == {i \in 1..Len(f) :
                             f[i].type = TypeCSV /\ make_name(f[i].file_name) = k}
                last(k) == CHOOSE i \in csv(k) : \A j \in csv(k) : j <= i
            IN /\ DOMAIN L = {make_name(v[i].file_name) :
                                 i \in {j \in 1..Len(v) : v[j].type = TypeCSV}}
               /\ \A k \in DOMAIN L : L[k] = make_lut(f[last(k)].data)

\* x-, x_, x- supplied in that order, all CSV: the table bound to x_ is
\* the one of the second file, not of the third.
C13_Witness ==
    /\ Compiled("a")
    /\ data["a"] # <<>>
    /\ files["a"] = <<FV(NameM, TypeMain, "plain"), FV(NameDash, TypeCSV, "plain"),
                      FV(NameUnder, TypeCSV, "inc"), FV(NameDash, TypeCSV, "plain")>>
    /\ BoundTables("a") = (make_name(NameUnder) :> make_lut("inc"))

\* base is stem followed by an extension: a dot and then no further dot,
\* with something other than dots before it.
SplitsAt(base, n) ==
    /\ n < Len(base)
    /\ base[n + 1] = "."
    /\ \A k \in (n + 2)..Len(base) : base[k] # "."
    /\ \E k \in 1..n : base[k] # "."

\* base with its extension, if it has one, replaced by ext.
WithExtension(base, ext) ==
    IF \E n \in 0..Len(base) : SplitsAt(base, n)
    THEN SubSeq(base, 1, CHOOSE n \in 0..Len(base) : SplitsAt(base, n)) \o ext
    ELSE base \o ext

\* C14: when _HtmlCompiler.compile returns, the results are one per source
\* in source order; the i-th result has the row (or none) of the i-th
\* source and is the file of the result directory named by the i-th
\* source's base name with its extension replaced by .pdf.
C14_ResultPerSource ==
    \A c \in Calls :
        Compiled(c) =>
            /\ Len(results[c]) = Len(sources[c])
            /\ \A i \in 1..Len(sources[c]) :
                 /\ results[c][i].row = sources[c][i].row
                 /\ results[c][i].name.dir = tmpdir[c]
                 /\ results[c][i].name.sub = "result"
                 /\ results[c][i].name.base = WithExtension(sources[c][i].name.base, ExtPdf)
                 /\ Exists(fs, results[c][i].name)

C14_Witness ==
    /\ pc["a"] = "package"
    /\ Len(sources["a"]) = 2
    /\ sources["a"][1].name.base = <<"m", ".", "x", ".", "y">>
    /\ sources["a"][1].row = None
    /\ sources["a"][2].row = Row2
    /\ results["a"][1].name.base = <<"m", ".", "x">> \o ExtPdf
    /\ results["a"][2].name.base = <<".", "x">> \o ExtPdf

\* The title written into master.html.
MasterTitle(c) ==
    ReadFile(fs, [dir |-> tmpdir[c], sub |-> "src", base |-> Master \o ExtHtml]).title

\* C15: in merged output the title of the document is the empty string for
\* an empty data set, the title template rendered with the first row for a
\* data set of exactly one row, and the title template rendered with
\* row = none for two or more rows.
C15_MergedTitle ==
    \A c \in Calls :
        ~return_archive[c] /\ Compiled(c) =>
            MasterTitle(c) =
                IF Len(data[c]) = 0 THEN EmptyTitle
                ELSE IF Len(data[c]) = 1
                THEN [pattern |-> title_pattern[c], row |-> data[c][1]]
                ELSE [pattern |-> title_pattern[c], row |-> None]

C15_Witness ==
    /\ ~return_archive["a"]
    /\ Compiled("a")
    /\ data["a"] = <<Row2, Row1>>
    /\ MasterTitle("a") = [pattern |-> "t1", row |-> None]

\* PageWizardMiddleware.process_view takes this step.
PageWizardStep ==
    /\ request # None
    /\ request.stage = "received"
    /\ request'.stage = "page_wizard"

StartsWithNeverBlowPrefix(path) ==
    \E i \in 1..Len(NEVER_BLOW_PAGE_WIZARD_PREFIXES) :
        startswith(path, NEVER_BLOW_PAGE_WIZARD_PREFIXES[i])

\* C16: PageWizardMiddleware.process_view clears the page wizard whenever
\* the session holds a related-paths list, the request method is GET and
\* request.path is not in that list.
C16_ClearsOnUnrelatedPage ==
    [][PageWizardStep
       /\ session.related # None
       /\ request.method = "GET"
       /\ ~InList(request.path, session.related.paths)
       => session'.related = None]_vars

\* process_view has run for a GET of an ordinary page outside the related
\* list and the wizard is still there.
C16_Witness ==
    /\ request # None
    /\ request.stage = "page_wizard"
    /\ request.method = "GET"
    /\ request.path = PathEvents
    /\ session.related = Related(<<PathOauth>>)

\* C17: a request whose path starts with one of
\* NEVER_BLOW_PAGE_WIZARD_PREFIXES does not clear the page wizard, whatever
\* its method and the session.
C17_NeverBlowPrefixes ==
    [][PageWizardStep /\ StartsWithNeverBlowPrefix(request.path)
       => session' = session]_vars

\* EventOrganizationMiddleware.process_view has run for the request.
EventOrganizationDone == request # None /\ request.stage = "view"

\* The event the URL names, None without a match.
MatchingEvent ==
    LET rm == request.resolver_match
    IN IF rm # None /\ Truthy(rm.kwargs.event_slug)
          /\ rm.kwargs.event_slug.str \in DOMAIN events
       THEN Event(rm.kwargs.event_slug.str, events)
       ELSE None

\* The organization organization_slug names, None without a match.
MatchingOrganization ==
    LET rm == request.resolver_match
    IN IF rm # None /\ Truthy(rm.kwargs.organization_slug)
          /\ rm.kwargs.organization_slug.str \in organizations
       THEN Organization(rm.kwargs.organization_slug.str)
       ELSE None

C19_CachedTimes ==
    last_op # None =>
        \A p \in last_op.programs :
            LET its == {i \in schedule_items : i.program = p}
                c == programs[p]
            IN IF its = {}
               THEN /\ c.cached_earliest_start_time = None
                    /\ c.cached_latest_end_time = None
               ELSE /\ \E i \in its : c.cached_earliest_start_time = i.start_time
                    /\ \A i \in its : c.cached_earliest_start_time.time <= i.start_time.time
                    /\ \E i \in its : c.cached_latest_end_time = i.cached_end_time
                    /\ \A i \in its : i.cached_end_time.time <= c.cached_latest_end_time.time

\* refresh_cached_times_qs over more than a batch of programs, the last of
\* which had schedule items and stale values.
C19_Witness ==
    /\ last_op # None
    /\ last_op.op = "refresh_cached_times_qs"
    /\ Cardinality(last_op.programs) = ManyPrograms
    /\ Cardinality({i \in schedule_items : i.program = ManyPrograms}) = 2
    /\ programs[ManyPrograms] = Cached(Time(1), Time(3))
    /\ programs[2] = Cached(None, None)

\* C20: for every existing event (obj given) get_readonly_fields includes
\* "slug"; for a new event (obj None) it returns the base read-only fields,
\* which do not include "slug": slug is editable only while creating.
C20_SlugReadonlyOnChange ==
    admin_obj # Unset =>
        IF admin_obj # None
        THEN InList("slug", admin_readonly)
        ELSE admin_readonly = readonly_fields /\ ~InList("slug", admin_readonly)

C20_Witness ==
    /\ admin_obj # Unset
    /\ admin_obj # None
    /\ admin_obj.slug = "e2"
    /\ admin_readonly = <<"slug">>
    /\ request.method = "POST"

\* The request of c goes through the body of the view in this step.
Handled(c) == c \in DOMAIN view /\ view[c].pc = "handle" /\ view'[c].pc = "done"

\* What the request of c read: a valid invitation of a programme its host
\* can edit.
ObservedOpen(c) == view[c].invitation.state = "valid" /\ view[c].programme.host_can_edit

\* C21: the Invitation, Programme, ProgrammeRole and sired Invitation rows
\* change only in the step of a POST request that read a valid invitation of
\* a programme the host can edit and whose form and formset are valid; a
\* request that read anything else is redirected and changes no row, and a
\* GET request changes no row.
C21_AcceptOnlyOnValidPost ==
    [][/\ database' # database =>
            \E c \in Calls : /\ Handled(c)
                             /\ view[c].method = "POST"
                             /\ ObservedOpen(c)
                             /\ view[c].form_valid
                             /\ view[c].formset_valid
       /\ \A c \in Calls :
            Handled(c) /\ ~ObservedOpen(c) =>
                database' = database /\ view'[c].response.status = 302
       /\ \A c \in Calls :
            Handled(c) /\ view[c].method = "GET" => database' = database]_vars

\* One POST accepted the invitation and sired an extra one; the other
\* request read the used invitation and was redirected, leaving the rows as
\* the first left them.
C21_Witness ==
    /\ view # <<>>
    /\ view["a"].pc = "done" /\ view["b"].pc = "done"
    /\ view["a"].messages = <<"success">>
    /\ view["b"].invitation # None
    /\ view["b"].invitation.state = "used"
    /\ view["b"].response = redirect("programme_profile_detail_view")
    /\ view["b"].messages = <<"warning">>
    /\ invitation.state = "used"
    /\ programme_roles = {[person |-> "a"]}
    /\ Cardinality(sired_invitations) = 1
    /\ programme.form_data = "a"

\* C22: a call without archive that found its Main file and saw no stage
\* raise has exactly one compiled result, whatever the number of rows, and
\* answers 200 application/pdf; no call is answered 201 or 401.
C22_SinglePdfAnswer ==
    \A c \in Calls :
        /\ ~return_archive[c] /\ Answered(c) =>
               /\ Len(results[c]) = 1
               /\ response[c].status = 200
               /\ response[c].content_type = "application/pdf"
        /\ "status" \in DOMAIN response[c] => response[c].status \notin {201, 401}

\* A call with no rows and without archive has been answered with the PDF
\* of its single result, which carries no row.
C22_Witness ==
    /\ ~return_archive["a"]
    /\ data["a"] = <<>>
    /\ Answered("a")
    /\ Len(results["a"]) = 1
    /\ results["a"][1].row = None
    /\ response["a"].status = 200
    /\ response["a"].content_type = "application/pdf"

\* C23: every body of every intermediate HTML document of a call is rendered
\* from the content of the Main-typed FileVersion that find_main selected,
\* also when another supplied file has the file name of that Main file or
\* several Main-typed files are supplied.
C23_BodyFromSelectedMain ==
    \A c \in Calls :
        main[c] # None =>
            \A i \in 1..Len(sources[c]) :
                Exists(fs, sources[c][i].name) =>
                    LET html == ReadFile(fs, sources[c][i].name)
                    IN \A k \in 1..Len(html.body) : html.body[k].tpl = main[c].data

\* A Main file followed by an HTML file of the same name: the body was
\* rendered from the HTML file's content.
C23_Witness ==
    /\ files["a"] = <<FV(NameM, TypeMain, "inc"), FV(NameM, TypeHTML, "plain")>>
    /\ main["a"] = FV(NameM, TypeMain, "inc")
    /\ data["a"] # <<>>
    /\ Compiled("a")
    /\ ReadFile(fs, sources["a"][1].name).body[1].tpl = "plain"
====
